---- MODULE Spec2Model ----
(***************************************************************************)
(* Model of calculator.cpp: a single-pass console calculator.              *)
(*                                                                         *)
(* stdin is a string of characters; `cin >> choice` and `cin >> num` are   *)
(* the formatted extractions of the C++ standard library: whitespace is    *)
(* skipped, then an optional sign and the longest run of digits are taken  *)
(* and, for a double, at most one decimal point with its digits and an     *)
(* exponent part; what was not taken stays in the stream for the next      *)
(* extraction.  stdout is the sequence of texts written by the `cout <<`   *)
(* statements, an `endl` being the "\n" that ends the text.                *)
(*                                                                         *)
(* A double is an IEEE 754 binary64 value: a sign and a magnitude m * 2^e  *)
(* of at most 53 significant bits, an infinity or a NaN.  Reading a        *)
(* double, adding, subtracting, multiplying and dividing give the exact    *)
(* result rounded to the nearest double, ties to the even one.  The        *)
(* magnitudes are natural numbers of any size, kept as sequences of limbs. *)
(* `cout << double` is the default formatting, six significant digits in   *)
(* %g style, of the exact value of the double.                             *)
(*                                                                         *)
(* The locals of main start uninitialized: a read of a local that was      *)
(* never written may yield any value.                                      *)
(***************************************************************************)
EXTENDS Integers, Sequences, FiniteSets, TLC

\* Longest stdin contents explored character by character.
MaxLen == 5

\* Number of times the program is started on the same stdin contents
\* (RerunSpec only).
MaxRuns == 2

\* The characters the short stdin contents are made of: digits, decimal
\* point, sign, blank and the exponent marker (a letter where no exponent
\* can stand).
InputChars == {"0", "1", "2", "3", "4", ".", "-", " ", "e"}

\* the vertical tab, which has no escape in a string
VT == ""

\* Longer stdin contents: sums, differences and quotients that are not
\* doubles, exponents, a product out of range, the other whitespace
\* characters, a letter.
LongInputs ==
  {"1 10000.01.04", "2 10000.35 .3", "4 400.03.4", "3 1.1 1.1",
   "1 1e2 1", "4\n2E+1\n-.5e-1\n", "3 1e200 1e200", "4 -4e-320 3",
   "2 1e 3", "1 1 1e999", "1 1e4294967297 1", "4 1 1e-99999999999",
   "3 100000000000e-0000000000000000000011 .00000000001e11", "2\f1\t3\r\n", "1" \o VT \o "2" \o VT \o "3",
   "3 2 x", "+4 +3. +0.e0"}

\* Values an uninitialized local may turn out to hold when it is read.
IntGarbage == {-1, 3}

----------------------------------------------------------------------------
\* Characters and strings

Ch(s, i) == SubSeq(s, i, i)

Drop(s, k) == SubSeq(s, k + 1, Len(s))

DigitChars == {"0", "1", "2", "3", "4", "5", "6", "7", "8", "9"}

DigitVal(c) == CHOOSE d \in 0..9 : Ch("0123456789", d + 1) = c

DigitChar(d) == Ch("0123456789", d + 1)

\* isspace in the "C" locale
IsSpace(c) == c \in {" ", "\t", "\n", VT, "\f", "\r"}

\* index of the first character of s at or after i that is not whitespace
\* (Len(s) + 1 when there is none)
SkipWs[s \in STRING, i \in Nat] ==
  IF i > Len(s) THEN i
  ELSE CHOOSE j \in i..(Len(s) + 1) :
         /\ j > Len(s) \/ ~IsSpace(Ch(s, j))
         /\ \A k \in i..(j - 1) : IsSpace(Ch(s, k))

\* index of the first character of s at or after i that is not a digit
SkipDigits[s \in STRING, i \in Nat] ==
  IF i > Len(s) THEN i
  ELSE CHOOSE j \in i..(Len(s) + 1) :
         /\ j > Len(s) \/ Ch(s, j) \notin DigitChars
         /\ \A k \in i..(j - 1) : Ch(s, k) \in DigitChars

\* index of the first character of s in i..j-1 that is not "0" (j if none)
SkipZeros[s \in STRING, i \in Nat, j \in Nat] ==
  IF i >= j THEN i
  ELSE CHOOSE z \in i..j :
         /\ z = j \/ Ch(s, z) # "0"
         /\ \A k \in i..(z - 1) : Ch(s, k) = "0"

\* value of the decimal digits s[i..j-1] (0 when there are none)
NatOf[s \in STRING, i \in Nat, j \in Nat] ==
  IF j <= i THEN 0 ELSE 10 * NatOf[s, i, j - 1] + DigitVal(Ch(s, j - 1))

Pow10[k \in Nat] == IF k = 0 THEN 1 ELSE 10 * Pow10[k - 1]

NatToStr[n \in Nat] ==
  IF n < 10 THEN DigitChar(n) ELSE NatToStr[n \div 10] \o DigitChar(n % 10)

\* the string made of the first k characters of the tuple t
Join[t \in Seq(STRING), k \in Nat] ==
  IF k = 0 THEN "" ELSE Join[t, k - 1] \o t[k]

Min(a, b) == IF a <= b THEN a ELSE b

Max(a, b) == IF a >= b THEN a ELSE b

----------------------------------------------------------------------------
\* Natural numbers of any size: the limbs of the number in base 2^15, the
\* least significant first and the last one nonzero; 0 is <<>>.  What works
\* through the limbs one after the other is split in halves, so that a
\* long number does not mean a deep evaluation.

LimbBits == 15

Base == 32768

BigNat == Seq(Nat)

One == <<1>>

Pow2[k \in Nat] == IF k = 0 THEN 1 ELSE 2 * Pow2[k - 1]

\* number of bits of n
BitLen[n \in Nat] == IF n = 0 THEN 0 ELSE 1 + BitLen[n \div 2]

\* number of zero bits below the lowest one bit of n > 0
LowZeros[n \in Nat] == IF n % 2 = 1 THEN 0 ELSE 1 + LowZeros[n \div 2]

Limb(a, i) == IF i <= Len(a) THEN a[i] ELSE 0

\* a without its zero limbs at the high end
BigTrim[a \in BigNat] ==
  IF a = <<>> \/ a[Len(a)] # 0 THEN a
  ELSE SubSeq(a, 1, CHOOSE n \in 0..Len(a) :
                       /\ n = 0 \/ a[n] # 0
                       /\ \A j \in (n + 1)..Len(a) : a[j] = 0)

BigOfNat[n \in Nat] == IF n = 0 THEN <<>> ELSE <<n % Base>> \o BigOfNat[n \div Base]

\* the value of a
BigToNat[a \in BigNat] == IF a = <<>> THEN 0 ELSE a[1] + Base * BigToNat[Tail(a)]

BigBitLen[a \in BigNat] ==
  IF a = <<>> THEN 0 ELSE LimbBits * (Len(a) - 1) + BitLen[a[Len(a)]]

\* number of zero bits below the lowest one bit of a, whose lowest nonzero
\* limb is the i-th
BigLowZerosAt[a \in BigNat, i \in Nat] == LimbBits * (i - 1) + LowZeros[a[i]]

\* number of zero bits below the lowest one bit of a > 0
BigLowZeros[a \in BigNat] ==
  BigLowZerosAt[a, CHOOSE i \in 1..Len(a) :
                     a[i] # 0 /\ \A j \in 1..(i - 1) : a[j] = 0]

\* -1, 0 or 1 as a is below, equal to or above b
BigCmp[a \in BigNat, b \in BigNat] ==
  IF Len(a) < Len(b) THEN -1
  ELSE IF Len(a) > Len(b) THEN 1
  ELSE IF a = b THEN 0
  ELSE IF \E i \in 1..Len(a) :
            a[i] < b[i] /\ \A j \in (i + 1)..Len(a) : a[j] = b[j] THEN -1
  ELSE 1

\* some limbs of a result, and the carry out of them (the remainder, in a
\* division)
Part == [l : BigNat, c : Int]

\* the limbs low.l and above them the limbs lo..hi of a * k + sg * b + c,
\* c being the carry low.c out of the limbs below lo; k is below Base, sg
\* is 1, 0 or -1
BigLinRange[a \in BigNat, k \in Nat, b \in BigNat, sg \in Int, lo \in Nat, hi \in Nat, low \in Part] ==
  IF lo > hi THEN low
  ELSE IF lo = hi
    THEN [l |-> Append(low.l, (Limb(a, lo) * k + sg * Limb(b, lo) + low.c) % Base),
          c |-> (Limb(a, lo) * k + sg * Limb(b, lo) + low.c) \div Base]
  ELSE BigLinRange[a, k, b, sg, (lo + hi) \div 2 + 1, hi,
                   BigLinRange[a, k, b, sg, lo, (lo + hi) \div 2, low]]

\* no limbs yet and the carry c
NoLimbs(c) == [l |-> <<>>, c |-> c]

\* the number of limbs p.l and top limb p.c
WithCarry[p \in Part] == IF p.c = 0 THEN p.l ELSE Append(p.l, p.c)

BigAdd[a \in BigNat, b \in BigNat] ==
  WithCarry[BigLinRange[a, 1, b, 1, 1, Max(Len(a), Len(b)), NoLimbs(0)]]

\* a - b for a >= b
BigSub[a \in BigNat, b \in BigNat] ==
  BigTrim[BigLinRange[a, 1, b, -1, 1, Len(a), NoLimbs(0)].l]

\* a * k + c for k and c below Base, k > 0
BigScaleAdd[a \in BigNat, k \in Nat, c \in Nat] ==
  WithCarry[BigLinRange[a, k, <<>>, 0, 1, Len(a), NoLimbs(c)]]

\* a * k for k below Base
BigScale[a \in BigNat, k \in Nat] ==
  IF k = 0 THEN <<>> ELSE BigScaleAdd[a, k, 0]

\* a * Base^n
BigShlLimbs[a \in BigNat, n \in Nat] ==
  IF a = <<>> THEN <<>> ELSE [i \in 1..n |-> 0] \o a

BigMul[a \in BigNat, b \in BigNat] ==
  IF a = <<>> \/ b = <<>> THEN <<>>
  ELSE IF Len(b) = 1 THEN BigScale[a, b[1]]
  ELSE BigAdd[BigMul[a, BigTrim[SubSeq(b, 1, Len(b) \div 2)]],
              BigShlLimbs[BigMul[a, SubSeq(b, Len(b) \div 2 + 1, Len(b))],
                          Len(b) \div 2]]

BigSquare[a \in BigNat] == BigMul[a, a]

BigPow10[k \in Nat] ==
  IF k = 0 THEN One
  ELSE IF k % 2 = 0 THEN BigSquare[BigPow10[k \div 2]]
  ELSE BigScale[BigPow10[k - 1], 10]

\* a * 2^k
BigShl[a \in BigNat, k \in Nat] ==
  BigShlLimbs[BigScale[a, Pow2[k % LimbBits]], k \div LimbBits]

\* the division by d < Base carried on through the limbs hi down to lo of
\* a: up.l are the quotient limbs found above hi and up.c is the remainder
\* left there
BigDivRange[a \in BigNat, d \in Nat, lo \in Nat, hi \in Nat, up \in Part] ==
  IF lo > hi THEN up
  ELSE IF lo = hi
    THEN [l |-> <<(up.c * Base + a[lo]) \div d>> \o up.l,
          c |-> (up.c * Base + a[lo]) % d]
  ELSE BigDivRange[a, d, lo, (lo + hi) \div 2,
                   BigDivRange[a, d, (lo + hi) \div 2 + 1, hi, up]]

\* quotient and remainder of a division
QuotRem == [q : BigNat, r : BigNat]

QuotRemOf[p \in Part] == [q |-> BigTrim[p.l], r |-> BigOfNat[p.c]]

\* a \div 2^k
BigShr[a \in BigNat, k \in Nat] ==
  IF k \div LimbBits >= Len(a) THEN <<>>
  ELSE BigTrim[BigDivRange[SubSeq(a, k \div LimbBits + 1, Len(a)),
                           Pow2[k % LimbBits], 1, Len(a) - k \div LimbBits,
                           NoLimbs(0)].l]

\* bit k of a, the lowest being bit 0
BigBit[a \in BigNat, k \in Nat] ==
  (Limb(a, k \div LimbBits + 1) \div Pow2[k % LimbBits]) % 2

\* is a one bit among the k lowest bits of a?
BigLowBits[a \in BigNat, k \in Nat] ==
  \/ \E i \in 1..Min(k \div LimbBits, Len(a)) : a[i] # 0
  \/ Limb(a, k \div LimbBits + 1) % Pow2[k % LimbBits] # 0

\* one step of the binary long division: the next quotient bit of r by d
BigBitStep[r \in BigNat, q \in BigNat, d \in BigNat] ==
  IF BigCmp[r, d] >= 0 THEN [q |-> BigScaleAdd[q, 2, 1], r |-> BigSub[r, d]]
  ELSE [q |-> BigScale[q, 2], r |-> r]

\* the steps for b * 2^hi down to b * 2^lo, after those that gave qr
BigBitsRange[qr \in QuotRem, b \in BigNat, hi \in Nat, lo \in Nat] ==
  IF hi = lo THEN BigBitStep[qr.r, qr.q, BigShl[b, lo]]
  ELSE BigBitsRange[BigBitsRange[qr, b, hi, (hi + lo) \div 2 + 1],
                    b, (hi + lo) \div 2, lo]

\* quotient and remainder of a by b > 0
BigDivMod[a \in BigNat, b \in BigNat] ==
  IF Len(b) = 1 THEN QuotRemOf[BigDivRange[a, b[1], 1, Len(a), NoLimbs(0)]]
  ELSE IF BigBitLen[a] < BigBitLen[b] THEN [q |-> <<>>, r |-> a]
  ELSE BigBitsRange[[q |-> <<>>, r |-> a], b, BigBitLen[a] - BigBitLen[b], 0]

\* the number written by the decimal digits s[i..j-1]
BigOfDigits[s \in STRING, i \in Nat, j \in Nat] ==
  IF j - i <= 9 THEN BigOfNat[NatOf[s, i, j]]
  ELSE BigAdd[BigMul[BigOfDigits[s, i, (i + j) \div 2],
                     BigPow10[j - (i + j) \div 2]],
              BigOfDigits[s, (i + j) \div 2, j]]

----------------------------------------------------------------------------
\* double values (IEEE 754 binary64, round to nearest, ties to even)

\* a finite double is (-1)^neg * m * 2^e with m odd, or m = <<>> and e = 0
\* for zero; an infinity and a NaN keep the sign only
Dbl == [kind : {"fin", "inf", "nan"}, neg : BOOLEAN, m : BigNat, e : Int]

MantBits == 53

\* exponent of the lowest bit a double can have
MinExp == -1074

\* the finite doubles are below 2^MaxBits
MaxBits == 1024

Zero(neg) == [kind |-> "fin", neg |-> neg, m |-> <<>>, e |-> 0]

Inf(neg) == [kind |-> "inf", neg |-> neg, m |-> <<>>, e |-> 0]

NaN(neg) == [kind |-> "nan", neg |-> neg, m |-> <<>>, e |-> 0]

\* the double of sign neg and magnitude m * 2^e, which has to be one
MkDbl[neg \in BOOLEAN, m \in BigNat, e \in Int] ==
  IF m = <<>> THEN Zero(neg)
  ELSE [kind |-> "fin", neg |-> neg,
        m |-> BigShr[m, BigLowZeros[m]], e |-> e + BigLowZeros[m]]

\* DBL_MAX = (2^53 - 1) * 2^971
DblMax(neg) == MkDbl[neg, <<32767, 32767, 32767, 255>>, 971]

IsZero(x) == x.kind = "fin" /\ x.m = <<>>

Negate(x) == [x EXCEPT !.neg = ~x.neg]

\* m * 2^e as a double, an infinity when it is out of range
Finite[neg \in BOOLEAN, m \in BigNat, e \in Int] ==
  IF BigBitLen[m] + e > MaxBits THEN Inf(neg) ELSE MkDbl[neg, m, e]

\* (q + f) * 2^e, 0 <= f < 1 and f > 0 exactly when sticky, rounded to a
\* multiple of 2^(e + drop), drop > 0
RoundAt[neg \in BOOLEAN, q \in BigNat, sticky \in BOOLEAN, e \in Int, drop \in Nat] ==
  IF /\ BigBit[q, drop - 1] = 1
     /\ (sticky \/ BigLowBits[q, drop - 1] \/ BigBit[q, drop] = 1)
    THEN Finite[neg, BigAdd[BigShr[q, drop], One], e + drop]
    ELSE Finite[neg, BigShr[q, drop], e + drop]

\* (qr.q + f) * 2^e rounded to a double, f > 0 exactly when qr.r is not zero;
\* qr.q has more than 54 bits: all but the first 53 are dropped, or all
\* those below 2^MinExp when these are more
RoundQuot[neg \in BOOLEAN, qr \in QuotRem, e \in Int] ==
  RoundAt[neg, qr.q, qr.r # <<>>, e, Max(BigBitLen[qr.q] - MantBits, MinExp - e)]

\* n/d * 2^e, n > 0, rounded to a double: the quotient of n * 2^s by d is
\* taken to 55 or 56 bits
RoundShifted[neg \in BOOLEAN, n \in BigNat, d \in BigNat, e \in Int, s \in Int] ==
  IF s >= 0 THEN RoundQuot[neg, BigDivMod[BigShl[n, s], d], e - s]
  ELSE RoundQuot[neg, BigDivMod[n, BigShl[d, 0 - s]], e - s]

\* the double nearest to (-1)^neg * n/d * 2^e
RoundRat[neg \in BOOLEAN, n \in BigNat, d \in BigNat, e \in Int] ==
  IF n = <<>> THEN Zero(neg)
  ELSE RoundShifted[neg, n, d, e, MantBits + 2 - (BigBitLen[n] - BigBitLen[d])]

\* (-1)^xneg * mx + (-1)^yneg * my, times 2^e
DySigned[xneg \in BOOLEAN, mx \in BigNat, yneg \in BOOLEAN, my \in BigNat, e \in Int] ==
  IF xneg = yneg THEN [neg |-> xneg, n |-> BigAdd[mx, my], d |-> One, e |-> e]
  ELSE IF BigCmp[mx, my] = 0 THEN [neg |-> FALSE, n |-> <<>>, d |-> One, e |-> e]
  ELSE IF BigCmp[mx, my] > 0 THEN [neg |-> xneg, n |-> BigSub[mx, my], d |-> One, e |-> e]
  ELSE [neg |-> yneg, n |-> BigSub[my, mx], d |-> One, e |-> e]

\* the real numbers x + y, x * y and x / y for finite x and y (y not zero
\* in x / y): sign neg and magnitude n/d * 2^e; an exact zero sum of
\* opposite signs is +0
DySum[x \in Dbl, y \in Dbl] ==
  DySigned[x.neg, BigShl[x.m, x.e - Min(x.e, y.e)],
           y.neg, BigShl[y.m, y.e - Min(x.e, y.e)], Min(x.e, y.e)]

DyProduct[x \in Dbl, y \in Dbl] ==
  [neg |-> x.neg # y.neg, n |-> BigMul[x.m, y.m], d |-> One, e |-> x.e + y.e]

DyQuotient[x \in Dbl, y \in Dbl] ==
  [neg |-> x.neg # y.neg, n |-> x.m, d |-> y.m, e |-> x.e - y.e]

Real == [neg : BOOLEAN, n : BigNat, d : BigNat, e : Int]

Round[r \in Real] == RoundRat[r.neg, r.n, r.d, r.e]

\* x + y
DblAdd(x, y) ==
  IF x.kind = "nan" THEN x
  ELSE IF y.kind = "nan" THEN y
  ELSE IF x.kind = "inf" /\ y.kind = "inf"
    THEN (IF x.neg = y.neg THEN x ELSE NaN(TRUE))
  ELSE IF x.kind = "inf" THEN x
  ELSE IF y.kind = "inf" THEN y
  ELSE Round[DySum[x, y]]

\* x - y
DblSub(x, y) == IF y.kind = "nan" THEN DblAdd(x, y) ELSE DblAdd(x, Negate(y))

\* x * y
DblMul(x, y) ==
  IF x.kind = "nan" THEN x
  ELSE IF y.kind = "nan" THEN y
  ELSE IF x.kind = "inf" \/ y.kind = "inf"
    THEN (IF IsZero(x) \/ IsZero(y) THEN NaN(TRUE) ELSE Inf(x.neg # y.neg))
  ELSE Round[DyProduct[x, y]]

\* x / y
DblDiv(x, y) ==
  IF x.kind = "nan" THEN x
  ELSE IF y.kind = "nan" THEN y
  ELSE IF x.kind = "inf"
    THEN (IF y.kind = "inf" THEN NaN(TRUE) ELSE Inf(x.neg # y.neg))
  ELSE IF y.kind = "inf" THEN Zero(x.neg # y.neg)
  ELSE IF IsZero(y)
    THEN (IF IsZero(x) THEN NaN(TRUE) ELSE Inf(x.neg # y.neg))
  ELSE Round[DyQuotient[x, y]]

DblGarbage == {MkDbl[FALSE, <<7>>, 0], MkDbl[TRUE, One, -1], Inf(FALSE)}

----------------------------------------------------------------------------
\* cout << double: default formatting (%g with precision 6)

Precision == 6

\* is n/d at least 10^k?
AtLeastPow10[n \in BigNat, d \in BigNat, k \in Int] ==
  IF k >= 0 THEN BigCmp[n, BigMul[d, BigPow10[k]]] >= 0
  ELSE BigCmp[BigMul[n, BigPow10[0 - k]], d] >= 0

\* the largest X >= x with 10^X <= n/d, given 10^x <= n/d
Exp10From[n \in BigNat, d \in BigNat, x \in Int] ==
  IF AtLeastPow10[n, d, x + 1] THEN Exp10From[n, d, x + 1] ELSE x

\* decimal exponent of the positive value n/d; the search starts from a
\* lower estimate got from the numbers of bits (log10 2 = 0.30103 nearly)
Exp10[n \in BigNat, d \in BigNat] ==
  Exp10From[n, d, ((BigBitLen[n] - BigBitLen[d] - 1) * 30103) \div 100000 - 1]

\* the Precision-digit quotient q rounded to nearest (ties to even), c
\* being -1, 0 or 1 as the remainder is below, equal to or above one half;
\* X is the decimal exponent
RoundUp[q \in Nat, c \in Int, X \in Int] ==
  IF c > 0 \/ (c = 0 /\ q % 2 = 1)
    THEN IF q + 1 = Pow10[Precision] THEN [m |-> Pow10[Precision - 1], e |-> X + 1]
         ELSE [m |-> q + 1, e |-> X]
    ELSE [m |-> q, e |-> X]

\* quotient qr.q and remainder qr.r of the division by d, rounded
RoundDiv[qr \in QuotRem, d \in BigNat, X \in Int] ==
  RoundUp[BigToNat[qr.q], BigCmp[BigScale[qr.r, 2], d], X]

\* n/d, of decimal exponent X, to Precision digits
RoundScaled[n \in BigNat, d \in BigNat, X \in Int] ==
  IF X < Precision
    THEN RoundDiv[BigDivMod[BigMul[n, BigPow10[Precision - 1 - X]], d], d, X]
    ELSE RoundDiv[BigDivMod[n, BigMul[d, BigPow10[X + 1 - Precision]]],
                  BigMul[d, BigPow10[X + 1 - Precision]], X]

\* n/d rounded to Precision significant digits: mantissa m and exponent e
RoundSig[n \in BigNat, d \in BigNat] == RoundScaled[n, d, Exp10[n, d]]

\* length of s without its trailing "0" characters, s having length k
StrippedLen[s \in STRING, k \in Nat] ==
  IF k > 0 /\ Ch(s, k) = "0" THEN StrippedLen[s, k - 1] ELSE k

\* s without its trailing "0" characters
StripZeros[s \in STRING] == SubSeq(s, 1, StrippedLen[s, Len(s)])

\* s padded with "0" on the left to width w
PadLeft[s \in STRING, w \in Nat] == IF Len(s) >= w THEN s ELSE PadLeft["0" \o s, w]

\* integer part ip and fraction digits frac put together, a bare point dropped
WithPoint[ip \in STRING, frac \in STRING] ==
  IF frac = "" THEN ip ELSE ip \o "." \o frac

\* fixed notation of m / 10^p, trailing zeros removed
FixedText[m \in Nat, p \in Nat] ==
  WithPoint[NatToStr[m \div Pow10[p]],
            IF p = 0 THEN "" ELSE StripZeros[PadLeft[NatToStr[m % Pow10[p]], p]]]

\* scientific notation of the Precision-digit mantissa m with exponent e
SciText[m \in Nat, e \in Int] ==
  WithPoint[Ch(NatToStr[m], 1), StripZeros[Drop(NatToStr[m], 1)]]
    \o "e" \o (IF e < 0 THEN "-" ELSE "+")
    \o PadLeft[NatToStr[IF e < 0 THEN 0 - e ELSE e], 2]

\* a magnitude rounded to Precision digits: mantissa and decimal exponent
Rounded == [m : Nat, e : Int]

\* the digits of the rounded magnitude r
MagnitudeText[r \in Rounded] ==
  IF r.e < -4 \/ r.e >= Precision THEN SciText[r.m, r.e]
  ELSE FixedText[r.m, Precision - 1 - r.e]

\* the digits of the finite magnitude m * 2^e
FiniteText[m \in BigNat, e \in Int] ==
  IF m = <<>> THEN "0"
  ELSE IF e >= 0 THEN MagnitudeText[RoundSig[BigShl[m, e], One]]
  ELSE MagnitudeText[RoundSig[m, BigShl[One, 0 - e]]]

\* the text `cout << x` writes
FormatDouble[x \in Dbl] ==
  (IF x.neg THEN "-" ELSE "")
    \o (CASE x.kind = "fin" -> FiniteText[x.m, x.e]
          [] x.kind = "inf" -> "inf"
          [] x.kind = "nan" -> "nan")

----------------------------------------------------------------------------
\* cin >> int and cin >> double

IntMax == 2147483647

\* do the digits s[i..j-1] (no leading zero) exceed the int range?
IntOverflows[neg \in BOOLEAN, s \in STRING, i \in Nat, j \in Nat] ==
  \/ j - i > 10
  \/ /\ j - i = 10
     /\ \/ NatOf[s, i, j - 1] > IntMax \div 10
        \/ /\ NatOf[s, i, j - 1] = IntMax \div 10
           /\ DigitVal(Ch(s, j - 1)) > (IntMax % 10) + (IF neg THEN 1 ELSE 0)

\* the int made of the sign and the digits s[p1..p2-1]; z is where the
\* leading zeros end
IntFrom[s \in STRING, neg \in BOOLEAN, p1 \in Nat, p2 \in Nat, z \in Nat] ==
  IF p2 = p1
    THEN [fail |-> TRUE, assigned |-> TRUE, value |-> 0, rest |-> Drop(s, p1 - 1)]
  ELSE IF IntOverflows[neg, s, z, p2]
    THEN [fail |-> TRUE, assigned |-> TRUE,
          value |-> IF neg THEN 0 - IntMax - 1 ELSE IntMax, rest |-> Drop(s, p2 - 1)]
  ELSE [fail |-> FALSE, assigned |-> TRUE,
        value |-> IF neg THEN 0 - NatOf[s, z, p2] ELSE NatOf[s, z, p2],
        rest |-> Drop(s, p2 - 1)]

\* an optional sign at p1 - sgn, then the longest run of digits from p1
IntAfterSign[s \in STRING, neg \in BOOLEAN, p1 \in Nat] ==
  IntFrom[s, neg, p1, SkipDigits[s, p1], SkipZeros[s, p1, SkipDigits[s, p1]]]

\* the extraction once the whitespace before p0 is skipped
IntAt[s \in STRING, p0 \in Nat] ==
  IF p0 > Len(s) THEN [fail |-> TRUE, assigned |-> FALSE, value |-> 0, rest |-> ""]
  ELSE IF Ch(s, p0) \in {"-", "+"} THEN IntAfterSign[s, Ch(s, p0) = "-", p0 + 1]
  ELSE IntAfterSign[s, FALSE, p0]

\* cin >> (int): fail is the failbit, assigned tells whether the variable was
\* written at all, rest is what stays unread
ExtractInt[s \in STRING] == IntAt[s, SkipWs[s, 1]]

\* the exponent (-1)^eneg * E of a token, however many digits it has,
\* compared with k: -1, 0 or 1
ExpCmp[eneg \in BOOLEAN, E \in BigNat, k \in Int] ==
  IF E = <<>> THEN (IF k > 0 THEN -1 ELSE IF k = 0 THEN 0 ELSE 1)
  ELSE IF eneg THEN (IF k >= 0 THEN -1 ELSE BigCmp[BigOfNat[0 - k], E])
  ELSE IF k <= 0 THEN 1
  ELSE BigCmp[E, BigOfNat[k]]

\* decimal exponents from which on a value is beyond every finite double,
\* and below which it rounds to zero
OverflowExp10 == 309

UnderflowExp10 == -324

\* the double nearest to n * 10^x, for n > 0 (strtod)
DecScaled[neg \in BOOLEAN, n \in BigNat, x \in Int] ==
  IF x >= 0 THEN RoundRat[neg, BigMul[n, BigPow10[x]], One, 0]
  ELSE RoundRat[neg, n, BigPow10[0 - x], 0]

\* the double nearest to n * 10^((-1)^eneg * E - f), n > 0 having the
\* decimal exponent X: the exponent is weighed against the digits of n
\* before anything is computed with it
DecRanged[neg \in BOOLEAN, n \in BigNat, eneg \in BOOLEAN, E \in BigNat, f \in Nat, X \in Int] ==
  IF ExpCmp[eneg, E, OverflowExp10 - X + f] >= 0 THEN Inf(neg)
  ELSE IF ExpCmp[eneg, E, UnderflowExp10 - X + f] < 0 THEN Zero(neg)
  ELSE DecScaled[neg, n, (IF eneg THEN 0 - BigToNat[E] ELSE BigToNat[E]) - f]

\* the double nearest to (-1)^neg * n * 10^((-1)^eneg * E - f)
DecToDbl[neg \in BOOLEAN, n \in BigNat, eneg \in BOOLEAN, E \in BigNat, f \in Nat] ==
  IF n = <<>> THEN Zero(neg) ELSE DecRanged[neg, n, eneg, E, f, Exp10[n, One]]

\* what the stream hands over for the converted token: a value out of
\* range is stored as the largest double and sets the failbit
DoubleStored[v \in Dbl, rest \in STRING] ==
  IF v.kind = "inf"
    THEN [fail |-> TRUE, assigned |-> TRUE, value |-> DblMax(v.neg), rest |-> rest]
    ELSE [fail |-> FALSE, assigned |-> TRUE, value |-> v, rest |-> rest]

\* the double made of the sign, the digits s[p1..p2-1], the fraction digits
\* s[p3..p4-1] and, when sci, the exponent of sign eneg and digits
\* s[p5..p6-1]; without a digit in the mantissa, or in an exponent begun,
\* the token is no number: 0 is stored and the failbit set
DoubleFrom[s \in STRING, neg \in BOOLEAN, p1 \in Nat, p2 \in Nat, p3 \in Nat, p4 \in Nat, sci \in BOOLEAN, eneg \in BOOLEAN, p5 \in Nat, p6 \in Nat] ==
  IF (p2 - p1) + (p4 - p3) = 0 \/ (sci /\ p6 = p5)
    THEN [fail |-> TRUE, assigned |-> TRUE, value |-> Zero(FALSE),
          rest |-> Drop(s, p6 - 1)]
  ELSE DoubleStored[
         DecToDbl[neg,
                  BigAdd[BigMul[BigOfDigits[s, p1, p2], BigPow10[p4 - p3]],
                         BigOfDigits[s, p3, p4]],
                  eneg, BigOfDigits[s, p5, p6], p4 - p3],
         Drop(s, p6 - 1)]

\* the exponent marker at p4 is taken; an optional sign follows, then digits
DoubleAfterMark[s \in STRING, neg \in BOOLEAN, p1 \in Nat, p2 \in Nat, p3 \in Nat, p4 \in Nat] ==
  IF p4 + 1 <= Len(s) /\ Ch(s, p4 + 1) \in {"-", "+"}
    THEN DoubleFrom[s, neg, p1, p2, p3, p4, TRUE, Ch(s, p4 + 1) = "-",
                    p4 + 2, SkipDigits[s, p4 + 2]]
  ELSE DoubleFrom[s, neg, p1, p2, p3, p4, TRUE, FALSE, p4 + 1, SkipDigits[s, p4 + 1]]

\* digits s[p1..p2-1] and fraction digits s[p3..p4-1] are read; an "e" or
\* "E" at p4 belongs to the token when the mantissa has a digit
DoubleAfterFrac[s \in STRING, neg \in BOOLEAN, p1 \in Nat, p2 \in Nat, p3 \in Nat, p4 \in Nat] ==
  IF (p2 - p1) + (p4 - p3) > 0 /\ p4 <= Len(s) /\ Ch(s, p4) \in {"e", "E"}
    THEN DoubleAfterMark[s, neg, p1, p2, p3, p4]
  ELSE DoubleFrom[s, neg, p1, p2, p3, p4, FALSE, FALSE, p4, p4]

\* digits s[p1..p2-1] are read; a point at p2 is followed by fraction digits
DoubleAfterInt[s \in STRING, neg \in BOOLEAN, p1 \in Nat, p2 \in Nat] ==
  IF p2 <= Len(s) /\ Ch(s, p2) = "."
    THEN DoubleAfterFrac[s, neg, p1, p2, p2 + 1, SkipDigits[s, p2 + 1]]
  ELSE DoubleAfterFrac[s, neg, p1, p2, p2, p2]

\* the extraction once the whitespace before p0 is skipped
DoubleAt[s \in STRING, p0 \in Nat] ==
  IF p0 > Len(s)
    THEN [fail |-> TRUE, assigned |-> FALSE, value |-> Zero(FALSE), rest |-> ""]
  ELSE IF Ch(s, p0) \in {"-", "+"}
    THEN DoubleAfterInt[s, Ch(s, p0) = "-", p0 + 1, SkipDigits[s, p0 + 1]]
  ELSE DoubleAfterInt[s, FALSE, p0, SkipDigits[s, p0]]

\* cin >> (double): sign, digits, at most one point, digits, exponent
ExtractDouble[s \in STRING] == DoubleAt[s, SkipWs[s, 1]]

----------------------------------------------------------------------------
\* The arithmetic functions.  Each yields what it writes to cout, whether it
\* threw runtime_error (and the message), and the values it computed.

Returned(text, v) ==
  [printed |-> <<text>>, threw |-> FALSE, what |-> "", computed |-> <<v>>]

Thrown(msg) ==
  [printed |-> <<>>, threw |-> TRUE, what |-> msg, computed |-> <<>>]

add(n1, n2) ==
  Returned("Result: " \o FormatDouble[DblAdd(n1, n2)] \o "\n", DblAdd(n1, n2))

\* subtract with its operands exchanged
subtract_swapped(n1, n2) ==
  Returned("Result: " \o FormatDouble[DblSub(n2, n1)] \o "\n", DblSub(n2, n1))

subtract(n1, n2) ==
  Returned("Result: " \o FormatDouble[DblSub(n1, n2)] \o "\n", DblSub(n1, n2))

multiply(n1, n2) ==
  Returned("Result: " \o FormatDouble[DblMul(n1, n2)] \o "\n", DblMul(n1, n2))

\* divide without the zero test: the quotient by zero is written as inf
divide_unguarded(n1, n2) ==
  Returned("Result: " \o FormatDouble[DblDiv(n1, n2)] \o "\n", DblDiv(n1, n2))

divide(n1, n2) ==
  IF IsZero(n2) THEN Thrown("Error! Division by zero.")
  ELSE Returned("Result: " \o FormatDouble[DblDiv(n1, n2)] \o "\n", DblDiv(n1, n2))

\* one invocation, as recorded in calls
Call(fn, n1, n2, r) ==
  [fn |-> fn, a |-> n1, b |-> n2, threw |-> r.threw, computed |-> r.computed]

\* the switch of main: the texts written and the invocations made
Switch(c, n1, n2) ==
  CASE c = 1 -> [r |-> add(n1, n2), calls |-> <<Call("add", n1, n2, add(n1, n2))>>]
    [] c = 2 -> [r |-> subtract(n1, n2),
                 calls |-> <<Call("subtract", n1, n2, subtract(n1, n2))>>]
    [] c = 3 -> [r |-> multiply(n1, n2),
                 calls |-> <<Call("multiply", n1, n2, multiply(n1, n2))>>]
    [] c = 4 -> [r |-> divide(n1, n2),
                 calls |-> <<Call("divide", n1, n2, divide(n1, n2))>>]
    [] OTHER -> [r |-> [printed |-> <<"Invalid choice\n">>, threw |-> FALSE,
                        what |-> "", computed |-> <<>>],
                 calls |-> <<>>]

\* a catch block that swallows the error
TryCatch_silent(sw) == sw.r.printed

\* the try block of main: a runtime_error is caught and its message written
TryCatch(sw) ==
  IF sw.r.threw THEN sw.r.printed \o <<sw.r.what \o "\n">> ELSE sw.r.printed

\* main returning 1 when the error was caught
MainReturn_failing(sw) == IF sw.r.threw THEN 1 ELSE 0

\* the value main returns after the try block
MainReturn(sw) == 0

\* the selector test without the cin.fail() part
ChoiceRejected_nofail(fail, c) == c < 1 \/ c > 4

\* the selector test with a wrong lower limit
ChoiceRejected_zero(fail, c) == fail \/ c < 0 \/ c > 4

\* the test after `cin >> choice`; c is read only when the read did not fail
ChoiceRejected(fail, c) == fail \/ c < 1 \/ c > 4

\* an operand read that is not validated
OperandRejected_never(fail) == FALSE

\* the test after `cin >> num1` and after `cin >> num2`
OperandRejected(fail) == fail

----------------------------------------------------------------------------
\* State

VARIABLES
  input,     \* the contents of stdin the process was started on
  cin,       \* the part of stdin not yet extracted
  failbit,   \* cin.fail()
  choice,    \* int choice
  num1,      \* double num1
  num2,      \* double num2
  uninit,    \* the locals never written so far
  pc,        \* where main stands
  out,       \* the texts written to cout, in order
  exitCode,  \* what main returned (-1 while it runs)
  reads,     \* the extractions performed, in order
  calls,     \* the arithmetic functions invoked, in order
  runs       \* outcome of the earlier runs on the same stdin (RerunSpec)

vars == <<input, cin, failbit, choice, num1, num2, uninit, pc, out,
          exitCode, reads, calls, runs>>

Menu == <<"Select operation:\n", "1. Add\n", "2. Subtract\n", "3. Multiply\n",
          "4. Divide\n", "Enter choice (1/2/3/4): ">>

\* the values a read of an int local can yield
IntRead(name, val, un) == IF name \in un THEN IntGarbage ELSE {val}

\* the values a read of a double local can yield
DblRead(name, val, un) == IF name \in un THEN DblGarbage ELSE {val}

\* operator>> on a stream whose failbit is already set extracts nothing
CinInt(s, fb) ==
  IF fb THEN [fail |-> TRUE, assigned |-> FALSE, value |-> 0, rest |-> s]
  ELSE ExtractInt[s]

CinDouble(s, fb) ==
  IF fb THEN [fail |-> TRUE, assigned |-> FALSE, value |-> Zero(FALSE), rest |-> s]
  ELSE ExtractDouble[s]

\* process start: nothing read, nothing written, locals uninitialized
Start(in) ==
  /\ input = in
  /\ cin = in
  /\ failbit = FALSE
  /\ choice = 0
  /\ num1 = Zero(FALSE)
  /\ num2 = Zero(FALSE)
  /\ uninit = {"choice", "num1", "num2"}
  /\ pc = "selector"
  /\ out = <<>>
  /\ exitCode = -1
  /\ reads = <<>>
  /\ calls = <<>>

Init ==
  \/ \E k \in 0..MaxLen : \E t \in [1..k -> InputChars] :
        Start(Join[t, k]) /\ runs = <<>>
  \/ \E in \in LongInputs : Start(in) /\ runs = <<>>

\* menu, prompt, cin >> choice and its validation
ReadChoice ==
  /\ pc = "selector"
  /\ \E r \in {CinInt(cin, failbit)} :
         /\ cin' = r.rest
         /\ failbit' = r.fail
         /\ choice' = IF r.assigned THEN r.value ELSE choice
         /\ uninit' = IF r.assigned THEN uninit \ {"choice"} ELSE uninit
         /\ reads' = Append(reads, "choice")
         /\ \E c \in IntRead("choice", choice', uninit') :
              IF ChoiceRejected(r.fail, c)
                THEN /\ out' = out \o Menu \o <<"Invalid input\n">>
                     /\ exitCode' = 1
                     /\ pc' = "done"
                ELSE /\ out' = out \o Menu
                     /\ exitCode' = exitCode
                     /\ pc' = "first"
  /\ UNCHANGED <<input, num1, num2, calls, runs>>

\* a first-operand read that asks again when the read fails
ReadFirst_retry ==
  /\ pc = "first"
  /\ \E r \in {CinDouble(cin, failbit)} :
         /\ cin' = r.rest
         /\ failbit' = r.fail
         /\ num1' = IF r.assigned THEN r.value ELSE num1
         /\ uninit' = IF r.assigned THEN uninit \ {"num1"} ELSE uninit
         /\ reads' = Append(reads, "num1")
         /\ IF OperandRejected(r.fail)
              THEN /\ out' = out \o <<"Enter first number: ", "Invalid input\n">>
                   /\ exitCode' = exitCode
                   /\ pc' = IF Len(reads) < 4 THEN "first" ELSE "done"
              ELSE /\ out' = Append(out, "Enter first number: ")
                   /\ exitCode' = exitCode
                   /\ pc' = "second"
  /\ UNCHANGED <<input, choice, num2, calls, runs>>

\* prompt, cin >> num1 and its validation
ReadFirst ==
  /\ pc = "first"
  /\ \E r \in {CinDouble(cin, failbit)} :
         /\ cin' = r.rest
         /\ failbit' = r.fail
         /\ num1' = IF r.assigned THEN r.value ELSE num1
         /\ uninit' = IF r.assigned THEN uninit \ {"num1"} ELSE uninit
         /\ reads' = Append(reads, "num1")
         /\ IF OperandRejected(r.fail)
              THEN /\ out' = out \o <<"Enter first number: ", "Invalid input\n">>
                   /\ exitCode' = 1
                   /\ pc' = "done"
              ELSE /\ out' = Append(out, "Enter first number: ")
                   /\ exitCode' = exitCode
                   /\ pc' = "second"
  /\ UNCHANGED <<input, choice, num2, calls, runs>>

\* prompt, cin >> num2 and its validation
ReadSecond ==
  /\ pc = "second"
  /\ \E r \in {CinDouble(cin, failbit)} :
         /\ cin' = r.rest
         /\ failbit' = r.fail
         /\ num2' = IF r.assigned THEN r.value ELSE num2
         /\ uninit' = IF r.assigned THEN uninit \ {"num2"} ELSE uninit
         /\ reads' = Append(reads, "num2")
         /\ IF OperandRejected(r.fail)
              THEN /\ out' = out \o <<"Enter second number: ", "Invalid input\n">>
                   /\ exitCode' = 1
                   /\ pc' = "done"
              ELSE /\ out' = Append(out, "Enter second number: ")
                   /\ exitCode' = exitCode
                   /\ pc' = "dispatch"
  /\ UNCHANGED <<input, choice, num1, calls, runs>>

\* the try/switch/catch and return 0
Dispatch ==
  /\ pc = "dispatch"
  /\ \E c \in IntRead("choice", choice, uninit),
        a \in DblRead("num1", num1, uninit),
        b \in DblRead("num2", num2, uninit) :
       \E sw \in {Switch(c, a, b)} :
           /\ out' = out \o TryCatch(sw)
           /\ calls' = calls \o sw.calls
           /\ exitCode' = MainReturn(sw)
  /\ pc' = "done"
  /\ UNCHANGED <<input, cin, failbit, choice, num1, num2, uninit, reads, runs>>

Next == ReadChoice \/ ReadFirst \/ ReadSecond \/ Dispatch

Spec == Init /\ [][Next]_vars

\* a started process runs on until main returns
FairSpec == Spec /\ WF_vars(Next)

\* the program is started again on the same stdin contents
Rerun ==
  /\ pc = "done"
  /\ Len(runs) + 1 < MaxRuns
  /\ runs' = Append(runs, [out |-> out, exitCode |-> exitCode])
  /\ input' = input
  /\ cin' = input
  /\ failbit' = FALSE
  /\ choice' = 0
  /\ num1' = Zero(FALSE)
  /\ num2' = Zero(FALSE)
  /\ uninit' = {"choice", "num1", "num2"}
  /\ pc' = "selector"
  /\ out' = <<>>
  /\ exitCode' = -1
  /\ reads' = <<>>
  /\ calls' = <<>>

RerunNext == Next \/ Rerun

RerunSpec == Init /\ [][RerunNext]_vars

----------------------------------------------------------------------------
\* Vocabulary of the properties

AllReads == <<"choice", "num1", "num2">>

IsResultLine(s) == Len(s) >= 8 /\ SubSeq(s, 1, 8) = "Result: "

ResultLines == {i \in DOMAIN out : IsResultLine(out[i])}

InvalidInputLines == {i \in DOMAIN out : out[i] = "Invalid input\n"}

DivZeroLines == {i \in DOMAIN out : out[i] = "Error! Division by zero.\n"}

InvalidChoiceLines == {i \in DOMAIN out : out[i] = "Invalid choice\n"}

OutcomeLines == ResultLines \cup InvalidInputLines \cup DivZeroLines

\* what stdin holds, token by token, independently of how far the run got
SelectorRead == ExtractInt[input]

FirstRead == ExtractDouble[SelectorRead.rest]

SecondRead == ExtractDouble[FirstRead.rest]

SelectorBad == LET s == SelectorRead IN s.fail \/ s.value \notin 1..4

\* the read that stdin makes fail validation: the first of the three that
\* does, "none" when all three pass
BadRead ==
  IF SelectorBad THEN "choice"
  ELSE LET f == FirstRead
       IN  IF f.fail THEN "num1"
           ELSE IF ExtractDouble[f.rest].fail THEN "num2"
           ELSE "none"

FirstBad == BadRead = "num1"

SecondBad == BadRead = "num2"

\* all three reads were made and succeeded, the selector passed validation
AllRead == reads = AllReads /\ ~failbit

DivByZeroRun == AllRead /\ choice = 4 /\ IsZero(num2)

\* the real number the selected operation has on a and b
ExactOf(s, a, b) ==
  CASE s = 1 -> DySum[a, b]
    [] s = 2 -> DySum[a, Negate(b)]
    [] s = 3 -> DyProduct[a, b]
    [] s = 4 -> DyQuotient[a, b]

\* exponent of the last of the 53 mantissa bits of the finite double v
UlpExp(v) ==
  IF IsZero(v) THEN MinExp ELSE Max(v.e + BigBitLen[v.m] - MantBits, MinExp)

\* the magnitude of the finite double v in units of 2^UlpExp(v)
Mant(v) == BigShl[v.m, v.e - UlpExp(v)]

\* a * 2^ea compared with b * 2^eb: -1, 0 or 1
DyCmp[a \in BigNat, ea \in Int, b \in BigNat, eb \in Int] ==
  IF ea >= eb THEN BigCmp[BigShl[a, ea - eb], b]
  ELSE BigCmp[a, BigShl[b, eb - ea]]

\* r.n/r.d * 2^r.e compared with c * 2^k: -1, 0 or 1
RealCmp(r, c, k) == DyCmp[r.n, r.e, BigMul[r.d, c], k]

\* the magnitude of the real r compared with the midpoint between the
\* finite double v and the next double away from zero
AboveCmp(r, v) == RealCmp(r, BigAdd[BigScale[Mant(v), 2], One], UlpExp(v) - 1)

\* the same with the midpoint between v and the next double towards zero,
\* which is half as far when v is a power of two
BelowCmp(r, v) ==
  IF IsZero(v) THEN 1
  ELSE IF Mant(v) = BigShl[One, MantBits - 1] /\ UlpExp(v) > MinExp
    THEN RealCmp(r, BigSub[BigScale[Mant(v), 4], One], UlpExp(v) - 2)
  ELSE RealCmp(r, BigSub[BigScale[Mant(v), 2], One], UlpExp(v) - 1)

\* v is the double nearest to the real r, the one with the even mantissa
\* when two are equally near; an infinity from 2^1024 - 2^970 on
IsNearest(v, r) ==
  CASE v.kind = "nan" -> FALSE
    [] v.kind = "inf" ->
         /\ v.neg = r.neg
         /\ RealCmp(r, BigSub[BigShl[One, MantBits + 1], One],
                    MaxBits - MantBits - 1) >= 0
    [] v.kind = "fin" ->
         /\ BigBitLen[v.m] <= MantBits
         /\ v.e >= MinExp
         /\ BigBitLen[v.m] + v.e <= MaxBits
         /\ r.n # <<>> => v.neg = r.neg
         /\ r.n = <<>> => IsZero(v)
         /\ AboveCmp(r, v) <= 0
         /\ BelowCmp(r, v) >= 0
         /\ (AboveCmp(r, v) = 0 \/ BelowCmp(r, v) = 0) => BigBit[Mant(v), 0] = 0

\* v is the value of the selected operation on a and b
IsRefResult(v, s, a, b) == IsNearest(v, ExactOf(s, a, b))

FnOf(s) ==
  CASE s = 1 -> "add" [] s = 2 -> "subtract" [] s = 3 -> "multiply" [] s = 4 -> "divide"

Rank(p) ==
  CASE p = "selector" -> 0 [] p = "first" -> 1 [] p = "second" -> 2
    [] p = "dispatch" -> 3 [] p = "done" -> 4

----------------------------------------------------------------------------
\* Properties

\* C1: once a selector in 1..4 and both operands were read (second operand
\* nonzero for division), the finished run has invoked exactly the function
\* the selector maps to, on the two operands as they stand in stdin and in
\* that order, and has written exactly one "Result: v" line, v being the
\* reference value of the operation.
ResultIsCorrect ==
  (pc = "done" /\ AllRead /\ ~(choice = 4 /\ IsZero(num2))) =>
     /\ choice \in 1..4
     /\ Len(calls) = 1
     /\ calls[1].fn = FnOf(choice)
     /\ choice = SelectorRead.value
     /\ num1 = FirstRead.value
     /\ num2 = SecondRead.value
     /\ calls[1].a = num1
     /\ calls[1].b = num2
     /\ ~calls[1].threw
     /\ Len(calls[1].computed) = 1
     /\ IsRefResult(calls[1].computed[1], choice, num1, num2)
     /\ Cardinality(ResultLines) = 1
     /\ out[Len(out)] = "Result: " \o FormatDouble[calls[1].computed[1]] \o "\n"

ResultIsCorrectWitness ==
  /\ pc = "done"
  /\ AllRead
  /\ choice = 2
  /\ input = "2 10000.35 .3"
  /\ Len(calls) = 1
  /\ out[Len(out)] = "Result: 10000.1\n"

\* C2: with selector 4 and a zero second operand no "Result:" line is ever
\* written, divide throws without computing a quotient, and the finished run
\* has written "Error! Division by zero.".
DivisionByZeroReported ==
  DivByZeroRun =>
     /\ ResultLines = {}
     /\ pc = "done" =>
          /\ Cardinality(DivZeroLines) = 1
          /\ out[Len(out)] = "Error! Division by zero.\n"
          /\ Len(calls) = 1
          /\ calls[1].fn = "divide"
          /\ calls[1].threw
          /\ calls[1].computed = <<>>

DivisionByZeroReportedWitness ==
  /\ pc = "done"
  /\ DivByZeroRun
  /\ num2.neg
  /\ ~IsZero(num1)

\* C3: when the selector does not parse or is outside 1..4, the selector read
\* is the only read of the run, and the finished run has written the menu and
\* "Invalid input", no "Result:" line, and returned 1.
BadSelectorRejected ==
  SelectorBad =>
     /\ pc \in {"selector", "done"}
     /\ Len(reads) <= 1
     /\ ResultLines = {}
     /\ pc = "done" =>
          /\ reads = <<"choice">>
          /\ out = Menu \o <<"Invalid input\n">>
          /\ exitCode = 1
          /\ calls = <<>>

BadSelectorRejectedWitness ==
  /\ pc = "done"
  /\ SelectorBad
  /\ uninit = {"choice", "num1", "num2"}
  /\ input # ""

\* C4: with a valid selector, a read that set the failbit ends the run at
\* once with "Invalid input" and exit code 1: after a bad first operand the
\* second is never read, after a bad second operand no function is invoked.
OperandsValidatedInTurn ==
  LET bad == BadRead
  IN  /\ failbit => /\ pc = "done"
                    /\ exitCode = 1
                    /\ out[Len(out)] = "Invalid input\n"
      /\ bad = "num1" => /\ Len(reads) <= 2
                         /\ calls = <<>>
                         /\ pc = "done" => reads = <<"choice", "num1">> /\ failbit
      /\ bad = "num2" => /\ calls = <<>>
                         /\ pc = "done" => reads = AllReads /\ failbit

OperandsValidatedInTurnWitness ==
  /\ pc = "done"
  /\ FirstBad
  /\ reads = <<"choice", "num1">>
  /\ Len(cin) > 1

\* C5: a finished run returned 1 exactly when the selector or an operand did
\* not parse or the selector was out of range, and 0 otherwise; a division by
\* zero run returned 0 after writing its diagnostic.
ExitCodeContract ==
  pc = "done" =>
     LET bad == BadRead
     IN  /\ exitCode = 1 <=> bad \in {"choice", "num1", "num2"}
         /\ exitCode = 0 <=> bad = "none"
         /\ DivByZeroRun => exitCode = 0 /\ DivZeroLines # {}

ExitCodeContractWitness ==
  /\ pc = "done"
  /\ DivByZeroRun
  /\ exitCode = 0
  /\ DivZeroLines # {}

\* C6 as stated: a finished run has either written a result and nothing
\* else, or written an error and returned non-zero.
TwoTerminalStates ==
  pc = "done" =>
     \/ /\ ResultLines # {}
        /\ InvalidInputLines \cup DivZeroLines = {}
     \/ /\ InvalidInputLines \cup DivZeroLines # {}
        /\ ResultLines = {}
        /\ exitCode # 0

\* C6 amended: a run starts awaiting the selector and ends in exactly one of
\* three terminal states: result written and exit code 0; "Invalid input"
\* written and exit code 1 (every validation failure); "Error! Division by
\* zero." written and exit code 0 (division by zero).
ThreeTerminalStates ==
  /\ reads = <<>> => pc = "selector"
  /\ pc = "done" =>
       \/ /\ ResultLines # {}
          /\ InvalidInputLines \cup DivZeroLines = {}
          /\ exitCode = 0
          /\ BadRead = "none"
          /\ ~DivByZeroRun
       \/ /\ InvalidInputLines # {}
          /\ ResultLines \cup DivZeroLines = {}
          /\ exitCode = 1
          /\ BadRead # "none"
       \/ /\ DivZeroLines # {}
          /\ ResultLines \cup InvalidInputLines = {}
          /\ exitCode = 0
          /\ DivByZeroRun

ThreeTerminalStatesWitness ==
  /\ pc = "done"
  /\ DivZeroLines # {}
  /\ exitCode = 0
  /\ num1.neg

\* C7: every run of the program on the same stdin contents writes the same
\* texts and returns the same exit code as the runs before it.
RunsAgree ==
  pc = "done" =>
     \A i \in DOMAIN runs : runs[i] = [out |-> out, exitCode |-> exitCode]

RunsAgreeWitness ==
  /\ pc = "done"
  /\ Len(runs) >= 1
  /\ uninit = {"num2"}

\* C8: "Invalid choice" is never written.
DefaultUnreachable == InvalidChoiceLines = {}

DefaultUnreachableWitness ==
  /\ pc = "done"
  /\ AllRead
  /\ Len(calls) = 1
  /\ calls[1].fn = "multiply"

\* C9: every run reaches the end of main; the reads are made at most once
\* each in the order selector, first operand, second operand; every step
\* moves main forward and no read follows a failed one.
ReadsInOrder == Len(reads) <= 3 /\ reads = SubSeq(AllReads, 1, Len(reads))

RunTerminates ==
  /\ <>(pc = "done")
  /\ []ReadsInOrder
  /\ [][Rank(pc') > Rank(pc) /\ (failbit => reads' = reads)]_vars

RunTerminatesWitness ==
  /\ pc = "done"
  /\ input # ""
  /\ cin = ""
  /\ failbit
  /\ reads = <<"choice", "num1">>

\* C10: a run never writes more than one outcome line, a finished run has
\* written exactly one (a "Result:" line, "Invalid input" or "Error!
\* Division by zero."), as its last text, and a "Result:" line is written
\* only after three successful reads with the selector in 1..4.
OneOutcomeLine ==
  /\ Cardinality(OutcomeLines) <= 1
  /\ pc # "done" => OutcomeLines = {}
  /\ pc = "done" => OutcomeLines = {Len(out)}
  /\ ResultLines # {} => AllRead /\ choice \in 1..4 /\ uninit = {}

OneOutcomeLineWitness ==
  /\ pc = "done"
  /\ ResultLines # {}
  /\ choice = 4
  /\ IsZero(num1)

====
